---- MODULE Spec2Model ----
(***************************************************************************)
(* Model of the live-player React application: App (selection state),      *)
(* EventList (periodic fetch of the event list) and StreamPlayer (the      *)
(* stream session controller around one hls.js engine and one <video>).    *)
(*                                                                         *)
(* Every action is one React event handler, effect run or engine callback, *)
(* together with every state update it makes.  React state setters called  *)
(* inside one handler are batched, so the state after the handler is what  *)
(* the last setter of each state variable wrote.                           *)
(***************************************************************************)
EXTENDS Integers, Sequences, FiniteSets, TLC

(* ----------------------------- bounds ---------------------------------- *)
\* number of fetchEvents invocations in one run
MaxFetches == 2
\* number of connectStream invocations in one run
MaxConnects == 2

(* ------------------------ values of the inputs ------------------------- *)
\* null of JavaScript, for the two error states
Null == "<null>"
\* Hls.ErrorTypes the engine reports in data.type
NETWORK_ERROR == "networkError"
MEDIA_ERROR == "mediaError"
\* the (data.type, data.details) pairs of the errors the engine reports: one
\* for each case of the ERROR handler's switch, keySystemError for its default
EngineErrors ==
  { [type |-> NETWORK_ERROR, details |-> "manifestLoadError"],
    [type |-> MEDIA_ERROR, details |-> "bufferStalledError"],
    [type |-> "keySystemError", details |-> "keySystemNoKeys"] }
\* response.status of a response that is not ok
HttpStatuses == {500}

\* the selection before any event was selected: useState(null)
NoEvent == [symbol |-> "", streamingUrl |-> "", ref |-> <<0, 0>>]

\* the arrays a response's JSON body may carry in data.events; a streamingUrl
\* of "" stands for one that is absent or empty: both are falsy
Responses ==
  { <<>>,
    <<[symbol |-> "AAPL", streamingUrl |-> "u1"]>>,
    <<[symbol |-> "AAPL", streamingUrl |-> "u2"]>>,
    <<[symbol |-> "AAPL", streamingUrl |-> "u1"], [symbol |-> "MSFT", streamingUrl |-> ""]>> }

(* ------------------------------ state ---------------------------------- *)
VARIABLES
  phase,          \* "init": rendered, effects not yet run; "mounted"; "unmounted"
  hlsSupported,   \* Hls.isSupported() of this browser
  canPlayNative,  \* video.canPlayType('application/vnd.apple.mpegurl') is truthy
  selectedEvent,  \* App: useState(null)
  events,         \* EventList: useState([])
  loading,        \* EventList: useState(true)
  fetchError,     \* EventList: error, useState(null)
  inflight,       \* fetchEvents invocations awaiting their response
  nFetch,         \* fetchEvents invocations so far
  interval,       \* the setInterval timer is armed
  status,         \* StreamPlayer: useState('disconnected')
  error,          \* StreamPlayer: useState(null)
  isPlaying,      \* StreamPlayer: useState(false)
  volume,         \* StreamPlayer: useState(1), in hundredths (the slider's step)
  hlsRef,         \* StreamPlayer: hlsRef.current, 0 for null, else an index of engines
  engines,        \* every Hls instance created so far: [url, destroyed]
  video,          \* the <video> element: [paused, src, load, volume]
  listeners,      \* loadedmetadata/error listener pairs added to the <video>
  calls,          \* the calls the last step made on engines and on the <video>
  last            \* the last step: its handler, its inputs and the status before it

listVars == <<events, loading, fetchError, inflight, nFetch, interval>>
playerVars == <<status, error, isPlaying, volume, hlsRef, engines, video, listeners>>
envVars == <<hlsSupported, canPlayNative>>
vars == <<phase, envVars, selectedEvent, listVars, playerVars, calls, last>>

\* videoRef.current: the <video> is rendered only while an event is selected
videoPresent(ev) == phase = "mounted" /\ ev # NoEvent

\* a fresh <video> element; load is the element's resource state: "idle" (no
\* load under way), "loading" (src was assigned), "loaded" (metadata is there);
\* volume is in hundredths, a media element starts at full volume
NewVideo == [paused |-> TRUE, src |-> "", load |-> "idle", volume |-> 100]

(* --------------------------- the volume slider -------------------------- *)
\* the values the range input is asked to take, by the pointer, the keyboard
\* or a script: decimal strings, written as the sequences of their characters
SliderInputs == { <<"0", ".", "3", "7">>, <<"1">>, <<"1", ".", "5">> }

Digits == <<"0", "1", "2", "3", "4", "5", "6", "7", "8", "9">>
isDigit(c) == \E d \in DOMAIN Digits : Digits[d] = c
digitValue(c) == (CHOOSE d \in DOMAIN Digits : Digits[d] = c) - 1

\* the length of the longest prefix of s made of digits
RECURSIVE digitRun(_)
digitRun(s) ==
  IF s # <<>> /\ isDigit(Head(s)) THEN 1 + digitRun(Tail(s)) ELSE 0

\* the number a sequence of digits denotes
RECURSIVE digitsValue(_)
digitsValue(s) ==
  IF s = <<>> THEN 0 ELSE 10 * digitsValue(SubSeq(s, 1, Len(s) - 1)) + digitValue(s[Len(s)])

\* faulty variant of parseFloat: stops at the decimal point, as parseInt does
parseFloat_Int(s) ==
  IF digitRun(s) = 0 THEN "NaN" ELSE 100 * digitsValue(SubSeq(s, 1, digitRun(s)))

\* parseFloat on an unsigned decimal string, in hundredths: the longest prefix
\* that is a decimal literal is converted, what follows it is ignored, and
\* NaN is returned when there is no such prefix
parseFloat(s) ==
  LET n == digitRun(s)
      rest == SubSeq(s, n + 1, Len(s))
      m == IF rest # <<>> /\ Head(rest) = "." THEN digitRun(Tail(rest)) ELSE 0
      frac == SubSeq(s, n + 2, n + 1 + m)
      hundredths == IF m = 0 THEN 0
                    ELSE IF m = 1 THEN 10 * digitValue(frac[1])
                    ELSE 10 * digitValue(frac[1]) + digitValue(frac[2])
  IN IF n = 0 /\ m = 0 THEN "NaN"
     ELSE 100 * digitsValue(SubSeq(s, 1, n)) + hundredths

\* s starts with a decimal literal: parseFloat(s) is not NaN
isNumber(s) ==
  digitRun(s) > 0 \/ (s # <<>> /\ Head(s) = "." /\ digitRun(Tail(s)) > 0)

\* the decimal digits of a natural number
RECURSIVE natToString(_)
natToString(n) ==
  IF n < 10 THEN <<Digits[n + 1]>> ELSE Append(natToString(n \div 10), Digits[(n % 10) + 1])

\* String(x) of a non-negative number of hundredths: no trailing zeros
numberToString(h) ==
  natToString(h \div 100) \o
    (IF h % 100 = 0 THEN <<>>
     ELSE IF h % 10 = 0 THEN <<".", Digits[((h % 100) \div 10) + 1]>>
     ELSE <<".", Digits[((h % 100) \div 10) + 1], Digits[(h % 10) + 1]>>)

\* faulty variant of rangeValue: the max attribute is missing
rangeValue_NoMax(raw) ==
  IF ~isNumber(raw) THEN numberToString(50) ELSE numberToString(parseFloat(raw))

\* the value a range input with min="0" max="1" step="0.01" holds after it was
\* asked to take raw: the default (the middle of the range) when raw is not a
\* number, else raw brought into [min, max]
rangeValue(raw) ==
  IF ~isNumber(raw) THEN numberToString(50)
  ELSE IF parseFloat(raw) > 100 THEN numberToString(100)
  ELSE numberToString(parseFloat(raw))

\* e.target.value of the range input for each value it is asked to take
SliderValue == [raw \in SliderInputs |-> rangeValue(raw)]

(* ------------------- StreamPlayer as state functions ------------------- *)
\* the StreamPlayer state a handler starts from, with an empty call log
Player ==
  [status |-> status, error |-> error, isPlaying |-> isPlaying, volume |-> volume,
   hlsRef |-> hlsRef, engines |-> engines, video |-> video, listeners |-> listeners, calls |-> <<>>]

\* the handler's result written back
Commit(p) ==
  /\ status' = p.status
  /\ error' = p.error
  /\ isPlaying' = p.isPlaying
  /\ volume' = p.volume
  /\ hlsRef' = p.hlsRef
  /\ engines' = p.engines
  /\ video' = p.video
  /\ listeners' = p.listeners
  /\ calls' = p.calls

HlsCall(p, id, op, arg) == [p EXCEPT !.calls = Append(@, <<"hls", id, op, arg>>)]
VideoCall(p, op) == [p EXCEPT !.calls = Append(@, <<"video", 0, op, "">>)]

\* hls.destroy()
HlsDestroy(p, id) == [HlsCall(p, id, "destroy", "") EXCEPT !.engines[id].destroyed = TRUE]
\* video.play()
VideoPlay(p) == [VideoCall(p, "play") EXCEPT !.video.paused = FALSE]
\* video.play() outside a click handler: the browser's autoplay policy decides
\* whether playback starts or the returned promise is rejected
VideoPlayAuto(p, autoplay) == IF autoplay THEN VideoPlay(p) ELSE VideoCall(p, "play")
\* video.pause()
VideoPause(p) == [VideoCall(p, "pause") EXCEPT !.video.paused = TRUE]

\* faulty variant of effectCleanup: the effect returns no cleanup
effectCleanup_NoDestroy(p) == p

\* the cleanup the auto-connect effect returns
effectCleanup(p) ==
  IF p.hlsRef # 0
  THEN [HlsDestroy(p, p.hlsRef) EXCEPT !.hlsRef = 0]
  ELSE p

\* what connectStream does after setStatus and setError
connectBranches(p1, streamUrl) ==
  IF hlsSupported THEN
    LET id == Len(p1.engines) + 1
        p2 == [p1 EXCEPT !.engines = Append(@, [url |-> streamUrl, destroyed |-> FALSE])]
        p3 == HlsCall(p2, id, "loadSource", streamUrl)
        p4 == HlsCall(p3, id, "attachMedia", "")
    IN [p4 EXCEPT !.hlsRef = id]
  ELSE IF canPlayNative THEN
    [p1 EXCEPT !.video.src = streamUrl, !.video.load = "loading", !.listeners = @ + 1]
  ELSE
    [p1 EXCEPT !.status = "error", !.error = "HLS is not supported in this browser"]

\* faulty variant of connectStream: without setStatus('connecting')
connectStream_NoConnecting(p, streamUrl, hasVideo) ==
  IF ~hasVideo THEN p ELSE connectBranches([p EXCEPT !.error = Null], streamUrl)

\* faulty variant of connectStream: without setError(null)
connectStream_KeepError(p, streamUrl, hasVideo) ==
  IF ~hasVideo THEN p ELSE connectBranches([p EXCEPT !.status = "connecting"], streamUrl)

\* connectStream, with streamUrl of the render it was created in
connectStream(p, streamUrl, hasVideo) ==
  IF ~hasVideo THEN p
  ELSE connectBranches([p EXCEPT !.status = "connecting", !.error = Null], streamUrl)

\* the body of the auto-connect effect
effectBody(p, event, streamUrl) ==
  IF event # NoEvent /\ streamUrl # ""
  THEN connectStream(p, streamUrl, videoPresent(event))
  ELSE p

\* faulty variant of disconnectStream: the engine is destroyed but
\* hlsRef.current keeps pointing at it
disconnectStream_KeepsRef(p, hasVideo) ==
  LET p1 == IF hasVideo
            THEN [VideoPause(p) EXCEPT !.video.src = "", !.video.load = "loading"]
            ELSE p
      p2 == IF p1.hlsRef # 0 THEN HlsDestroy(p1, p1.hlsRef) ELSE p1
  IN [p2 EXCEPT !.status = "disconnected", !.isPlaying = FALSE, !.error = Null]

\* disconnectStream
disconnectStream(p, hasVideo) ==
  LET p1 == IF hasVideo
            THEN [VideoPause(p) EXCEPT !.video.src = "", !.video.load = "loading"]
            ELSE p
      p2 == IF p1.hlsRef # 0
            THEN [HlsDestroy(p1, p1.hlsRef) EXCEPT !.hlsRef = 0]
            ELSE p1
  IN [p2 EXCEPT !.status = "disconnected", !.isPlaying = FALSE, !.error = Null]

\* faulty variant of onManifestParsed: without video.play()
onManifestParsed_NoPlay(p, autoplay) ==
  [p EXCEPT !.status = "connected", !.isPlaying = TRUE]

\* faulty variant of onManifestParsed: ignored once an error was reported
onManifestParsed_NotAfterError(p, autoplay) ==
  IF p.status = "error" THEN p
  ELSE [VideoPlayAuto([p EXCEPT !.status = "connected"], autoplay) EXCEPT !.isPlaying = TRUE]

\* the MANIFEST_PARSED handler of connectStream
onManifestParsed(p, autoplay) ==
  [VideoPlayAuto([p EXCEPT !.status = "connected"], autoplay) EXCEPT !.isPlaying = TRUE]

\* faulty variant of errorText: the details alone
errorText_DetailsOnly(type, details) == details

\* the text of the error state: `${data.type}: ${data.details}`
errorText(type, details) == type \o ": " \o details

\* faulty variant of onHlsError: the NETWORK_ERROR case without its break
\* falls into the next case
onHlsError_NetworkFallsThrough(p, hls, fatal, type, details) ==
  IF ~fatal THEN p
  ELSE
    LET p1 == [p EXCEPT !.status = "error", !.error = errorText(type, details)] IN
    CASE type = NETWORK_ERROR ->
           HlsCall(HlsCall(p1, hls, "startLoad", ""), hls, "recoverMediaError", "")
      [] type = MEDIA_ERROR -> HlsCall(p1, hls, "recoverMediaError", "")
      [] OTHER -> [HlsDestroy(p1, hls) EXCEPT !.isPlaying = FALSE]

\* faulty variant of onHlsError: the MEDIA_ERROR case without its break
\* falls into the default case
onHlsError_MediaFallsThrough(p, hls, fatal, type, details) ==
  IF ~fatal THEN p
  ELSE
    LET p1 == [p EXCEPT !.status = "error", !.error = errorText(type, details)] IN
    CASE type = NETWORK_ERROR -> HlsCall(p1, hls, "startLoad", "")
      [] type = MEDIA_ERROR ->
           [HlsDestroy(HlsCall(p1, hls, "recoverMediaError", ""), hls)
              EXCEPT !.isPlaying = FALSE]
      [] OTHER -> [HlsDestroy(p1, hls) EXCEPT !.isPlaying = FALSE]

\* faulty variant of onHlsError: data.fatal is not looked at
onHlsError_IgnoresFatal(p, hls, fatal, type, details) ==
  LET p1 == [p EXCEPT !.status = "error", !.error = errorText(type, details)] IN
  CASE type = NETWORK_ERROR -> HlsCall(p1, hls, "startLoad", "")
    [] type = MEDIA_ERROR -> HlsCall(p1, hls, "recoverMediaError", "")
    [] OTHER -> [HlsDestroy(p1, hls) EXCEPT !.isPlaying = FALSE]

\* the ERROR handler of connectStream, for the engine hls it closes over
onHlsError(p, hls, fatal, type, details) ==
  IF ~fatal THEN p
  ELSE
    LET p1 == [p EXCEPT !.status = "error", !.error = errorText(type, details)] IN
    CASE type = NETWORK_ERROR -> HlsCall(p1, hls, "startLoad", "")
      [] type = MEDIA_ERROR -> HlsCall(p1, hls, "recoverMediaError", "")
      [] OTHER -> [HlsDestroy(p1, hls) EXCEPT !.isPlaying = FALSE]

\* a parsed body without an events key: data.events is undefined
NoBody == [hasEvents |-> FALSE, events |-> <<>>]

(* ------------------------------ Init ----------------------------------- *)
Init ==
  /\ phase = "init"
  /\ hlsSupported \in BOOLEAN
  \* canPlayType is consulted only when Hls.isSupported() is false
  /\ canPlayNative \in (IF hlsSupported THEN {FALSE} ELSE BOOLEAN)
  /\ selectedEvent = NoEvent
  /\ events = <<>>
  /\ loading = TRUE
  /\ fetchError = Null
  /\ inflight = {}
  /\ nFetch = 0
  /\ interval = FALSE
  /\ status = "disconnected"
  /\ error = Null
  /\ isPlaying = FALSE
  /\ volume = 100
  /\ hlsRef = 0
  /\ engines = <<>>
  /\ video = NewVideo
  /\ listeners = 0
  /\ calls = <<>>
  /\ last = [op |-> "init", pre |-> "disconnected", engine |-> 0, fatal |-> FALSE,
             type |-> "", changed |-> FALSE, fetch |-> 0, data |-> NoBody]

\* what a step records of itself: its handler, the status it started from, of
\* an engine callback the engine, of an engine error whether it is fatal and
\* its type, of a selection whether it changed the selected event, of a
\* slider input whether the input element changed the value it was asked to take
Step(op, engine, fatal, type, changed) ==
  last' = [op |-> op, pre |-> status, engine |-> engine, fatal |-> fatal,
           type |-> type, changed |-> changed, fetch |-> 0, data |-> NoBody]

\* what a step of fetchEvents records of itself: the invocation f it belongs
\* to and, when it completes successfully, the parsed body
StepFetch(op, f, data) ==
  last' = [op |-> op, pre |-> status, engine |-> 0, fatal |-> FALSE,
           type |-> "", changed |-> FALSE, fetch |-> f, data |-> data]

\* connectStream is bounded: each invocation adds an engine or a listener pair
CanConnect == Len(engines) < MaxConnects /\ listeners < MaxConnects

(* ----------------------------- EventList ------------------------------- *)
\* fetchEvents up to its first await: setLoading(true), setError(null), fetch(API_URL)
fetchEvents ==
  /\ nFetch < MaxFetches
  /\ nFetch' = nFetch + 1
  /\ inflight' = inflight \cup {nFetch + 1}
  /\ loading' = TRUE
  /\ fetchError' = Null
  /\ UNCHANGED events

\* faulty variant of eventsOf: the response is merged into the held list
eventsOf_Merges(data, f) ==
  LET arr == IF data.hasEvents THEN data.events ELSE <<>>
  IN events \o [i \in 1..Len(arr) |->
        [symbol |-> arr[i].symbol, streamingUrl |-> arr[i].streamingUrl, ref |-> <<f, i>>]]

\* data.events || [] of a parsed body, each element a fresh object of fetch f
eventsOf(data, f) ==
  LET arr == IF data.hasEvents THEN data.events ELSE <<>>
  IN [i \in 1..Len(arr) |->
        [symbol |-> arr[i].symbol, streamingUrl |-> arr[i].streamingUrl, ref |-> <<f, i>>]]

Bodies ==
  {[hasEvents |-> TRUE, events |-> r] : r \in Responses}
    \cup {NoBody}

\* err.message of the failures fetchEvents catches
FailureMessages ==
  {"HTTP error! status: " \o ToString(c) : c \in HttpStatuses}
    \cup {"Failed to fetch"}

\* the first render is committed: the effects of EventList and StreamPlayer run
Mount ==
  /\ phase = "init"
  /\ phase' = "mounted"
  /\ fetchEvents
  /\ interval' = TRUE
  /\ Commit(effectBody(Player, selectedEvent, selectedEvent.streamingUrl))
  /\ StepFetch("mount", nFetch + 1, NoBody)
  /\ UNCHANGED <<envVars, selectedEvent>>

\* setInterval(fetchEvents, 60000) fires: the timer runs until clearInterval
IntervalTick ==
  /\ interval
  /\ fetchEvents
  /\ StepFetch("tick", nFetch + 1, NoBody)
  /\ calls' = <<>>
  /\ UNCHANGED <<phase, envVars, selectedEvent, interval, playerVars>>

\* which of the three views EventList renders
listView ==
  IF loading /\ Len(events) = 0 THEN "loading"
  ELSE IF fetchError # Null /\ Len(events) = 0 THEN "error"
  ELSE "list"

\* the Refresh button: onClick={fetchEvents} disabled={loading}
ClickRefresh ==
  /\ phase = "mounted"
  /\ listView = "list"
  /\ ~loading
  /\ fetchEvents
  /\ StepFetch("refresh", nFetch + 1, NoBody)
  /\ calls' = <<>>
  /\ UNCHANGED <<phase, envVars, selectedEvent, interval, playerVars>>

\* the Retry button of the error view: onClick={fetchEvents}
ClickRetry ==
  /\ phase = "mounted"
  /\ listView = "error"
  /\ fetchEvents
  /\ StepFetch("retry", nFetch + 1, NoBody)
  /\ calls' = <<>>
  /\ UNCHANGED <<phase, envVars, selectedEvent, interval, playerVars>>

\* faulty variant of FetchResolve: the response of an invocation that is not
\* the one started last is dropped
FetchResolve_LatestStartedWins(f, data) ==
  /\ f \in inflight
  /\ inflight' = inflight \ {f}
  /\ IF phase = "mounted"
     THEN /\ events' = IF f = nFetch THEN eventsOf(data, f) ELSE events
          /\ loading' = FALSE
     ELSE UNCHANGED <<events, loading>>
  /\ StepFetch("fetchOk", f, data)
  /\ calls' = <<>>
  /\ UNCHANGED <<phase, envVars, selectedEvent, fetchError, nFetch, interval, playerVars>>

\* faulty variant of FetchResolve: a selection the new list lacks is cleared
FetchResolve_DropsStaleSelection(f, data) ==
  /\ f \in inflight
  /\ inflight' = inflight \ {f}
  /\ IF phase = "mounted"
     THEN /\ events' = eventsOf(data, f)
          /\ loading' = FALSE
          /\ selectedEvent' =
               IF selectedEvent = NoEvent
                  \/ \E i \in DOMAIN events' : events'[i].symbol = selectedEvent.symbol
               THEN selectedEvent ELSE NoEvent
     ELSE UNCHANGED <<events, loading, selectedEvent>>
  /\ StepFetch("fetchOk", f, data)
  /\ calls' = <<>>
  /\ UNCHANGED <<phase, envVars, fetchError, nFetch, interval, playerVars>>

\* fetchEvents after its awaits, response ok and body parsed: setEvents, setLoading(false)
FetchResolve(f, data) ==
  /\ f \in inflight
  /\ inflight' = inflight \ {f}
  /\ IF phase = "mounted"
     THEN /\ events' = eventsOf(data, f)
          /\ loading' = FALSE
     ELSE UNCHANGED <<events, loading>>
  /\ StepFetch("fetchOk", f, data)
  /\ calls' = <<>>
  /\ UNCHANGED <<phase, envVars, selectedEvent, fetchError, nFetch, interval, playerVars>>

\* faulty variant of FetchReject: catch also calls setEvents([])
FetchReject_ClearsEvents(f, message) ==
  /\ f \in inflight
  /\ inflight' = inflight \ {f}
  /\ IF phase = "mounted"
     THEN /\ fetchError' = message
          /\ loading' = FALSE
          /\ events' = <<>>
     ELSE UNCHANGED <<fetchError, loading, events>>
  /\ StepFetch("fetchFail", f, NoBody)
  /\ calls' = <<>>
  /\ UNCHANGED <<phase, envVars, selectedEvent, nFetch, interval, playerVars>>

\* fetchEvents after a failed await: catch sets the error, finally clears loading
FetchReject(f, message) ==
  /\ f \in inflight
  /\ inflight' = inflight \ {f}
  /\ IF phase = "mounted"
     THEN /\ fetchError' = message
          /\ loading' = FALSE
     ELSE UNCHANGED <<fetchError, loading>>
  /\ StepFetch("fetchFail", f, NoBody)
  /\ calls' = <<>>
  /\ UNCHANGED <<phase, envVars, selectedEvent, events, nFetch, interval, playerVars>>

(* -------------------------------- App ---------------------------------- *)
\* faulty variant of handleSelectEvent: the effect has no dependencies on the
\* props and runs for the first selection only
handleSelectEvent_EffectRunsOnce(i) ==
  /\ phase = "mounted"
  /\ listView = "list"
  /\ i \in 1..Len(events)
  /\ LET ev == events[i]
         changed == ev # selectedEvent
         first == selectedEvent = NoEvent
     IN /\ (changed /\ ev.streamingUrl # "") => CanConnect
        /\ selectedEvent' = ev
        /\ Commit(IF first THEN effectBody(Player, ev, ev.streamingUrl) ELSE Player)
        /\ Step("select", 0, FALSE, "", changed)
  /\ UNCHANGED <<phase, envVars, listVars>>

\* a click on card i: handleSelectEvent(event), then StreamPlayer's effect when
\* [event, streamUrl] changed (Object.is): the old cleanup, then the new body
handleSelectEvent(i) ==
  /\ phase = "mounted"
  /\ listView = "list"
  /\ i \in 1..Len(events)
  /\ LET ev == events[i]
         changed == ev # selectedEvent
     IN /\ (changed /\ ev.streamingUrl # "") => CanConnect
        /\ selectedEvent' = ev
        /\ Commit(IF changed
                  THEN effectBody(effectCleanup(Player), ev, ev.streamingUrl)
                  ELSE Player)
        /\ Step("select", 0, FALSE, "", changed)
  /\ UNCHANGED <<phase, envVars, listVars>>

(* ---------------------------- StreamPlayer ----------------------------- *)
\* the Connect button, rendered while status is 'disconnected'
ClickConnect ==
  /\ phase = "mounted"
  /\ selectedEvent # NoEvent
  /\ status = "disconnected"
  /\ CanConnect
  /\ Commit(connectStream(Player, selectedEvent.streamingUrl, videoPresent(selectedEvent)))
  /\ Step("connect", 0, FALSE, "", FALSE)
  /\ UNCHANGED <<phase, envVars, selectedEvent, listVars>>

\* the Disconnect button, rendered while status is not 'disconnected'
ClickDisconnect ==
  /\ phase = "mounted"
  /\ selectedEvent # NoEvent
  /\ status # "disconnected"
  /\ Commit(disconnectStream(Player, videoPresent(selectedEvent)))
  /\ Step("disconnect", 0, FALSE, "", FALSE)
  /\ UNCHANGED <<phase, envVars, selectedEvent, listVars>>

\* faulty variant of togglePlayPause: decides from the isPlaying state
togglePlayPause_FromIsPlaying(p, hasVideo) ==
  IF ~hasVideo THEN p
  ELSE IF ~p.isPlaying
       THEN [VideoPlay(p) EXCEPT !.isPlaying = TRUE]
       ELSE [VideoPause(p) EXCEPT !.isPlaying = FALSE]

\* togglePlayPause; its play() runs in a click handler, so it is allowed
togglePlayPause(p, hasVideo) ==
  IF ~hasVideo THEN p
  ELSE IF p.video.paused
       THEN [VideoPlay(p) EXCEPT !.isPlaying = TRUE]
       ELSE [VideoPause(p) EXCEPT !.isPlaying = FALSE]

\* faulty variant of handleVolumeChange: the <video> is not told
handleVolumeChange_StateOnly(p, value, hasVideo) ==
  [p EXCEPT !.volume = parseFloat(value)]

\* handleVolumeChange
handleVolumeChange(p, value, hasVideo) ==
  LET newVolume == parseFloat(value)
      p1 == [p EXCEPT !.volume = newVolume]
  \* the volume setter of a media element throws on a value outside [0, 1]
  IN IF hasVideo /\ newVolume \in 0..100 THEN [p1 EXCEPT !.video.volume = newVolume] ELSE p1

\* the slider, rendered while the status is connected, is asked to take raw:
\* onChange runs with the value the input holds afterwards
ChangeVolume(raw) ==
  /\ phase = "mounted"
  /\ selectedEvent # NoEvent
  /\ status = "connected"
  /\ Commit(handleVolumeChange(Player, SliderValue[raw], videoPresent(selectedEvent)))
  /\ Step("volume", 0, FALSE, "", SliderValue[raw] # raw)
  /\ UNCHANGED <<phase, envVars, selectedEvent, listVars>>

\* the Play/Pause button, rendered while status is 'connected'
ClickPlayPause ==
  /\ phase = "mounted"
  /\ selectedEvent # NoEvent
  /\ status = "connected"
  /\ Commit(togglePlayPause(Player, videoPresent(selectedEvent)))
  /\ Step("toggle", 0, FALSE, "", FALSE)
  /\ UNCHANGED <<phase, envVars, selectedEvent, listVars>>

\* an engine that was not destroyed emits Hls.Events.MANIFEST_PARSED
HlsManifestParsed(e, autoplay) ==
  /\ phase = "mounted"
  /\ e \in 1..Len(engines)
  /\ ~engines[e].destroyed
  /\ Commit(onManifestParsed(Player, autoplay))
  /\ Step("manifestParsed", e, FALSE, "", FALSE)
  /\ UNCHANGED <<phase, envVars, selectedEvent, listVars>>

\* an engine that was not destroyed emits Hls.Events.ERROR
HlsError(e, fatal, type, details) ==
  /\ phase = "mounted"
  /\ e \in 1..Len(engines)
  /\ ~engines[e].destroyed
  /\ Commit(onHlsError(Player, e, fatal, type, details))
  /\ Step("hlsError", e, fatal, type, FALSE)
  /\ UNCHANGED <<phase, envVars, selectedEvent, listVars>>

\* one 'loadedmetadata' listener of the native branch
onLoadedMetadata(p, autoplay) ==
  [VideoPlayAuto([p EXCEPT !.status = "connected"], autoplay) EXCEPT !.isPlaying = TRUE]

\* one 'error' listener of the native branch
onVideoError(p) == [p EXCEPT !.status = "error", !.error = "Failed to load stream"]

\* n listeners run one after the other
RECURSIVE RunLoaded(_, _, _)
RunLoaded(p, n, autoplay) ==
  IF n = 0 THEN p ELSE RunLoaded(onLoadedMetadata(p, autoplay), n - 1, autoplay)

\* the <video> fires 'loadedmetadata': every listener added so far runs
VideoLoadedMetadata(autoplay) ==
  /\ phase = "mounted"
  /\ listeners > 0
  /\ video.load = "loading"
  /\ video.src # ""
  /\ Commit(RunLoaded([Player EXCEPT !.video.load = "loaded"], listeners, autoplay))
  /\ Step("loadedmetadata", 0, FALSE, "", FALSE)
  /\ UNCHANGED <<phase, envVars, selectedEvent, listVars>>

\* the <video> fires 'error' (a failed load, or the empty src disconnectStream
\* assigns): every listener added so far runs, all with the same effect
VideoError ==
  /\ phase = "mounted"
  /\ listeners > 0
  /\ video.load # "idle"
  /\ Commit(onVideoError([Player EXCEPT !.video.load = "idle"]))
  /\ Step("videoError", 0, FALSE, "", FALSE)
  /\ UNCHANGED <<phase, envVars, selectedEvent, listVars>>

\* faulty variant of Unmount: the EventList effect returns no clearInterval
Unmount_KeepsInterval ==
  /\ phase = "mounted"
  /\ phase' = "unmounted"
  /\ Commit(effectCleanup(Player))
  /\ Step("unmount", 0, FALSE, "", FALSE)
  /\ UNCHANGED <<envVars, selectedEvent, listVars>>

\* the App is torn down: clearInterval, and the auto-connect effect's cleanup
Unmount ==
  /\ phase = "mounted"
  /\ phase' = "unmounted"
  /\ interval' = FALSE
  /\ Commit(effectCleanup(Player))
  /\ Step("unmount", 0, FALSE, "", FALSE)
  /\ UNCHANGED <<envVars, selectedEvent, events, loading, fetchError, inflight, nFetch>>

Next ==
  \/ Mount
  \/ IntervalTick
  \/ ClickRefresh
  \/ ClickRetry
  \/ \E f \in inflight, data \in Bodies : FetchResolve(f, data)
  \/ \E f \in inflight, message \in FailureMessages : FetchReject(f, message)
  \/ \E i \in DOMAIN events : handleSelectEvent(i)
  \/ ClickConnect
  \/ ClickDisconnect
  \/ ClickPlayPause
  \/ \E raw \in SliderInputs : ChangeVolume(raw)
  \/ \E e \in DOMAIN engines, autoplay \in BOOLEAN : HlsManifestParsed(e, autoplay)
  \/ \E e \in DOMAIN engines, fatal \in BOOLEAN, data \in EngineErrors :
       HlsError(e, fatal, data.type, data.details)
  \/ \E autoplay \in BOOLEAN : VideoLoadedMetadata(autoplay)
  \/ VideoError
  \/ Unmount

Spec == Init /\ [][Next]_vars

(* ============================== claims ================================= *)
\* the engines created and not yet destroyed
LiveEngines == {e \in DOMAIN engines : ~engines[e].destroyed}

\* the last step was the ERROR handler run for a fatal error
FatalErrorStep == last.op = "hlsError" /\ last.fatal

\* the last step processed a click on an event card whose streamingUrl is non-empty
SelectedWithUrl == last.op = "select" /\ selectedEvent.streamingUrl # ""

\* the calls of one kind among the calls of the last step
CallsOf(target, op) == {i \in DOMAIN calls : calls[i][1] = target /\ calls[i][3] = op}

(* C1: whenever the engine reports a fatal error while the status is connecting
   or connected, the status becomes error and the error descriptor becomes the
   text '<type>: <details>' of that error. *)
C1_FatalErrorSetsDescriptor ==
  (FatalErrorStep /\ last.pre \in {"connecting", "connected"}) =>
    /\ status = "error"
    /\ \E data \in EngineErrors :
         /\ data.type = last.type
         /\ error = data.type \o ": " \o data.details

C1_Witness ==
  /\ FatalErrorStep
  /\ last.pre = "connected"
  /\ last.type = MEDIA_ERROR
  /\ status = "error"
  /\ error = "mediaError: bufferStalledError"

(* C2: every fatal network-category error causes exactly one startLoad call on
   the engine that reported it and no other call, does not release that engine,
   and leaves the status at error; also when the status was error already, that
   is for every such error in a row. *)
C2_NetworkErrorResumesLoading ==
  (FatalErrorStep /\ last.type = NETWORK_ERROR) =>
    /\ calls = << <<"hls", last.engine, "startLoad", "">> >>
    /\ ~engines[last.engine].destroyed
    /\ status = "error"

C2_Witness ==
  /\ FatalErrorStep
  /\ last.type = NETWORK_ERROR
  /\ last.pre = "error"
  /\ error = "networkError: manifestLoadError"
  /\ calls = << <<"hls", last.engine, "startLoad", "">> >>
  /\ last.engine \in LiveEngines

(* C3: every fatal media-category error causes exactly one recoverMediaError
   call on the engine that reported it, no destroy and no startLoad call, and
   leaves the status at error. *)
C3_MediaErrorRecoversPipeline ==
  (FatalErrorStep /\ last.type = MEDIA_ERROR) =>
    /\ Cardinality(CallsOf("hls", "recoverMediaError")) = 1
    /\ \A i \in CallsOf("hls", "recoverMediaError") : calls[i][2] = last.engine
    /\ CallsOf("hls", "destroy") = {}
    /\ CallsOf("hls", "startLoad") = {}
    /\ ~engines[last.engine].destroyed
    /\ status = "error"

C3_Witness ==
  /\ FatalErrorStep
  /\ last.type = MEDIA_ERROR
  /\ last.pre = "connecting"
  /\ calls = << <<"hls", last.engine, "recoverMediaError", "">> >>
  /\ last.engine \in LiveEngines

(* C4: a fatal error of a category other than network or media destroys the
   engine, and no later step (error handler, disconnect, unbind cleanup) makes
   any call on an engine that was destroyed before that step. *)
C4_NoCallOnReleasedEngine ==
  [][ /\ \A e \in DOMAIN engines, data \in EngineErrors :
           ( /\ data.type \notin {NETWORK_ERROR, MEDIA_ERROR}
             /\ HlsError(e, TRUE, data.type, data.details) )
             => engines'[e].destroyed
      /\ \A i \in DOMAIN calls' :
           (calls'[i][1] = "hls" /\ calls'[i][2] \in DOMAIN engines)
             => ~engines[calls'[i][2]].destroyed ]_vars

(* C5: unbinding the player (the stream URL of the selection becoming absent,
   or the view being destroyed) leaves no live engine, and, while the view
   lives on, leaves the status at disconnected. *)
C5_UnbindResetsToDisconnected ==
  /\ (last.op = "select" /\ last.changed /\ selectedEvent.streamingUrl = "") =>
        (status = "disconnected" /\ LiveEngines = {})
  /\ (last.op = "unmount") => LiveEngines = {}

(* C6: connect with an absent or empty stream URL causes no transition: by the
   Connect button status, error descriptor, engine reference and engines are
   unchanged; by a selection change status and error descriptor are unchanged,
   no engine is created and the engine reference changes only by the cleanup
   of the previous binding clearing it. *)
C6_ConnectWithoutUrlIsNoTransition ==
  [][ /\ (ClickConnect /\ selectedEvent.streamingUrl = "") =>
           UNCHANGED <<status, error, hlsRef, engines>>
      /\ \A i \in DOMAIN events :
           (handleSelectEvent(i) /\ events[i].streamingUrl = "") =>
             /\ UNCHANGED <<status, error>>
             /\ Len(engines') = Len(engines)
             /\ hlsRef' \in {0, hlsRef} ]_vars

(* C7: at every moment at most one engine is live, and a step that creates an
   engine makes its destroy calls before it loads the new one. *)
C7_AtMostOneLiveEngine ==
  /\ Cardinality(LiveEngines) <= 1
  /\ \A i \in CallsOf("hls", "destroy"), j \in CallsOf("hls", "loadSource") : i < j

C7_Witness ==
  /\ Len(engines) = 2
  /\ engines[1].destroyed
  /\ LiveEngines = {2}
  /\ hlsRef = 2
  /\ last.op = "select"

(* C8 as stated: whenever the status is disconnected and the user selects an
   event whose streamingUrl is non-empty, the status is connecting once that
   selection has been processed. *)
C8_SelectLeavesDisconnected_Original ==
  (SelectedWithUrl /\ last.pre = "disconnected") => status = "connecting"

(* C8 amended: whenever the status is disconnected and the user selects an
   event with a non-empty streamingUrl that is not the event object already
   selected, in a browser that supports hls.js or native HLS playback, the
   status is connecting once that selection has been processed. *)
C8_SelectNewEventLeavesDisconnected ==
  ( /\ SelectedWithUrl
    /\ last.pre = "disconnected"
    /\ last.changed
    /\ (hlsSupported \/ canPlayNative) ) => status = "connecting"

C8_Witness ==
  /\ SelectedWithUrl
  /\ last.pre = "disconnected"
  /\ last.changed
  /\ status = "connecting"
  /\ Len(engines) = 2
  /\ hlsRef = 2

(* C9 as stated: every change of the (event, streamUrl) pair to a pair in which
   both are present, whatever the status before it, releases the previous
   engine, starts a fresh engine loading the new URL, clears the error
   descriptor and sets the status to connecting. *)
C9_ChangeReconnects_Original ==
  (SelectedWithUrl /\ last.changed) =>
    /\ status = "connecting"
    /\ error = Null
    /\ hlsRef # 0
    /\ LiveEngines = {hlsRef}
    /\ hlsRef = Len(engines)
    /\ engines[hlsRef].url = selectedEvent.streamingUrl
    /\ CallsOf("hls", "loadSource") # {}
    /\ \A i \in CallsOf("hls", "loadSource") :
         calls[i] = <<"hls", hlsRef, "loadSource", selectedEvent.streamingUrl>>

(* C9 amended: in a browser where hls.js is supported, every change of the
   (event, streamUrl) pair to a pair in which both are present, whatever the
   status before it, releases the previous engine, starts a fresh engine
   loading the new URL, clears the error descriptor and sets the status to
   connecting. *)
C9_ChangeReconnects ==
  (SelectedWithUrl /\ last.changed /\ hlsSupported) =>
    /\ status = "connecting"
    /\ error = Null
    /\ hlsRef # 0
    /\ LiveEngines = {hlsRef}
    /\ hlsRef = Len(engines)
    /\ engines[hlsRef].url = selectedEvent.streamingUrl
    /\ CallsOf("hls", "loadSource") # {}
    /\ \A i \in CallsOf("hls", "loadSource") :
         calls[i] = <<"hls", hlsRef, "loadSource", selectedEvent.streamingUrl>>

C9_Witness ==
  /\ SelectedWithUrl
  /\ last.changed
  /\ last.pre = "error"
  /\ status = "connecting"
  /\ error = Null
  /\ Len(engines) = 2
  /\ engines[1].destroyed
  /\ hlsRef = 2
  /\ engines[2].url # engines[1].url

(* C10: when the engine signals manifest-parsed while the status is connecting,
   the status becomes connected, play() is called exactly once on the <video>
   and the playing flag becomes true. *)
C10_ManifestParsedConnects ==
  (last.op = "manifestParsed" /\ last.pre = "connecting") =>
    /\ status = "connected"
    /\ Cardinality(CallsOf("video", "play")) = 1
    /\ isPlaying

C10_Witness ==
  /\ last.op = "manifestParsed"
  /\ last.pre = "connecting"
  /\ status = "connected"
  /\ calls = << <<"video", 0, "play", "">> >>
  /\ isPlaying
  /\ ~video.paused

(* C11: a user disconnect from connected, and likewise from connecting or
   error, leaves the status at disconnected, the <video> paused with its
   source cleared, the engine destroyed and hlsRef.current null, the error
   descriptor null and the playing flag false. *)
C11_DisconnectResetsEverything ==
  (last.op = "disconnect" /\ last.pre \in {"connected", "connecting", "error"}) =>
    /\ status = "disconnected"
    /\ video.paused
    /\ video.src = ""
    /\ CallsOf("video", "pause") # {}
    /\ LiveEngines = {}
    /\ hlsRef = 0
    /\ error = Null
    /\ ~isPlaying

C11_Witness ==
  /\ last.op = "disconnect"
  /\ last.pre = "connected"
  /\ status = "disconnected"
  /\ calls = << <<"video", 0, "pause", "">>, <<"hls", 1, "destroy", "">> >>
  /\ engines = << [url |-> "u1", destroyed |-> TRUE] >>
  /\ hlsRef = 0

(* C12: a non-fatal error reported by the engine changes nothing: status,
   error descriptor, playing flag, engine reference, engines and <video> are unchanged
   and no call is made on the engine. *)
C12_NonFatalErrorChangesNothing ==
  [][ (last'.op = "hlsError" /\ ~last'.fatal) =>
        /\ UNCHANGED <<status, error, isPlaying, hlsRef, engines, video>>
        /\ calls' = <<>> ]_vars

C12_Witness ==
  /\ last.op = "hlsError"
  /\ ~last.fatal
  /\ last.type = NETWORK_ERROR
  /\ status = "connected"
  /\ isPlaying
  /\ last.engine \in LiveEngines
  /\ calls = <<>>

\* symbol and streamingUrl of the held events, without their object identity
EventContents == [i \in DOMAIN events |->
                    [symbol |-> events[i].symbol, streamingUrl |-> events[i].streamingUrl]]

(* C13: after a fetch that completes successfully while the view is mounted,
   the event list equals exactly the events array of that response (the
   empty list when the array is empty or the body has none), whatever list was
   held before. *)
C13_SuccessfulFetchReplacesList ==
  (last.op = "fetchOk" /\ phase = "mounted") =>
    EventContents = (IF last.data.hasEvents THEN last.data.events ELSE <<>>)

C13_Witness ==
  /\ last.op = "fetchOk"
  /\ phase = "mounted"
  /\ last.fetch = 2
  /\ selectedEvent.ref = <<1, 2>>
  /\ last.data.hasEvents
  /\ EventContents = << [symbol |-> "AAPL", streamingUrl |-> "u2"] >>

(* C14: a fetch that fails (non-2xx response, network failure or malformed
   JSON) leaves the event list exactly as it was before the failure. *)
C14_FailedFetchKeepsList ==
  [][ \A f \in inflight, message \in FailureMessages :
        FetchReject(f, message) => events' = events ]_vars

C14_Witness ==
  /\ last.op = "fetchFail"
  /\ phase = "mounted"
  /\ fetchError = "HTTP error! status: 500"
  /\ Len(events) = 2

(* C15: after a fetch fails, and until the next fetch starts, the failure is
   displayed together with the Retry control, whether or not a previously
   fetched list is being held.  (The error state is set by a failed fetch and
   cleared only by the start of a fetch; the error view is the only place
   that renders it and the Retry button.) *)
C15_FailureIsDisplayedWithRetry ==
  (phase = "mounted" /\ fetchError # Null) => listView = "error"

\* the fetch that completed last ran while another invocation was under way:
\* one is still in flight, or one that was started after it is already done
LastFetchOverlapped == inflight # {} \/ last.fetch < nFetch

(* C16: overlapping fetches are not prevented, and when a fetch that overlapped
   with another completes successfully, the event list is the response of that
   fetch, the one that completed last, whether it was started before or after
   the other. *)
C16_LastResponseWins ==
  (last.op = "fetchOk" /\ phase = "mounted" /\ LastFetchOverlapped) =>
    LET arr == IF last.data.hasEvents THEN last.data.events ELSE <<>>
    IN events = [i \in 1..Len(arr) |->
                   [symbol |-> arr[i].symbol, streamingUrl |-> arr[i].streamingUrl,
                    ref |-> <<last.fetch, i>>]]

C16_Witness ==
  /\ last.op = "fetchOk"
  /\ phase = "mounted"
  /\ last.fetch = 1
  /\ nFetch = 2
  /\ inflight = {}
  /\ fetchError = Null
  /\ Len(events) = 2
  /\ events[1].ref = <<1, 1>>

(* C17: mounting the list view starts exactly one fetch and arms the timer;
   every timer tick starts exactly one fetch and happens only while the view
   is mounted; teardown cancels the timer, and no fetch is started after
   teardown. *)
C17_FetchOnMountAndTicksUntilTeardown ==
  [][ /\ Mount => (nFetch = 0 /\ nFetch' = 1 /\ inflight' = {1} /\ interval')
      /\ IntervalTick =>
           (phase = "mounted" /\ nFetch' = nFetch + 1 /\ inflight' = inflight \cup {nFetch'})
      /\ (phase' = "unmounted") => ~interval'
      /\ (phase = "unmounted") => (nFetch' = nFetch /\ inflight' \subseteq inflight) ]_vars

C17_Witness ==
  /\ phase = "unmounted"
  /\ ~interval
  /\ last.op = "fetchOk"
  /\ nFetch = 1
  /\ inflight = {}

(* C19: togglePlayPause decides only from the <video>'s paused flag: if paused
   it calls play() and sets the playing flag true, otherwise it calls pause()
   and sets the playing flag false; it never changes the status, the error
   descriptor or the engine; without a <video> it does nothing. *)
C19_ToggleFollowsPausedFlag ==
  [][ /\ (last'.op = "toggle") =>
           /\ IF video.paused
              THEN calls' = << <<"video", 0, "play", "">> >> /\ isPlaying' /\ ~video'.paused
              ELSE calls' = << <<"video", 0, "pause", "">> >> /\ ~isPlaying' /\ video'.paused
           /\ UNCHANGED <<status, error, hlsRef, engines>>
      /\ togglePlayPause(Player, FALSE) = Player ]_vars

\* a paused <video> while the status is connected
C19_Witness ==
  /\ last.op = "toggle"
  /\ status = "connected"
  /\ video.paused
  /\ ~isPlaying
  /\ calls = << <<"video", 0, "pause", "">> >>
  /\ hlsRef \in LiveEngines

(* C20: moving the slider to v sets the <video>'s volume and the displayed
   volume state to exactly v (0.37 is 37 hundredths, 1 is 100), and leaves
   the status, the error descriptor, the playing flag and the engine as they
   were. *)
C20_VolumeSetsBothToTheValue ==
  [][ (last'.op = "volume") =>
        /\ ChangeVolume(<<"0", ".", "3", "7">>) => (volume' = 37 /\ video'.volume = 37)
        /\ ChangeVolume(<<"1">>) => (volume' = 100 /\ video'.volume = 100)
        /\ UNCHANGED <<status, error, isPlaying, hlsRef, engines>>
        /\ video' = [video EXCEPT !.volume = volume']
        /\ calls' = <<>> ]_vars

\* the slider was moved to 0.37 while an engine was playing
C20_Witness ==
  /\ last.op = "volume"
  /\ volume = 37
  /\ video.volume = 37
  /\ status = "connected"
  /\ isPlaying
  /\ hlsRef \in LiveEngines

\* the steps of the StreamPlayer controller: connect, disconnect, the engine's
\* and the <video>'s callbacks, play/pause and the volume slider
ControllerOps ==
  {"connect", "disconnect", "manifestParsed", "hlsError", "loadedmetadata",
   "videoError", "toggle", "volume"}

(* C18: the selected event changes only through the user's select action: no
   controller step and no fetch completion changes it, even when the refreshed
   list no longer contains it; and no controller step changes the event
   list. *)
C18_SelectionChangesOnlyBySelect ==
  [][ /\ (selectedEvent' # selectedEvent) => (last'.op = "select")
      /\ (last'.op \in ControllerOps \union {"fetchOk", "fetchFail"}) =>
           UNCHANGED selectedEvent
      /\ (last'.op \in ControllerOps) => UNCHANGED events ]_vars

\* a refreshed list replaced the one the selected event came from and does
\* not contain it; the selection is still there
C18_Witness ==
  /\ phase = "mounted"
  /\ last.op = "fetchOk"
  /\ last.changed = FALSE
  /\ selectedEvent # NoEvent
  /\ selectedEvent.symbol = "MSFT"
  /\ events # <<>>
  /\ \A i \in DOMAIN events : events[i].symbol # selectedEvent.symbol

(* C21: the volume of the <video>, and the volume state displayed with it, is
   always within [0, 1] (0..100 hundredths): a slider input above 1 is clamped
   to 1 by the range input before handleVolumeChange sees it, and is never
   stored as given. *)
C21_VolumeStaysInRange ==
  [][ /\ volume' \in 0..100
      /\ video'.volume \in 0..100
      /\ (last'.op = "volume" /\ ChangeVolume(<<"1", ".", "5">>)) =>
           (volume' = 100 /\ video'.volume = 100 /\ last'.changed) ]_vars

\* the slider was at 0.37 and was asked to take a value above 1
C21_Witness ==
  /\ last.op = "volume"
  /\ last.changed
  /\ volume = 100
  /\ video.volume = 100
  /\ parseFloat(<<"1", ".", "5">>) = 150
  /\ <<"1", ".", "5">> \in SliderInputs

\* the steps that are callbacks of an engine
EngineOps == {"manifestParsed", "hlsError"}

(* C22: after a fatal error of the network or media category the status is
   error and the engine that reported it is still live; from status error, a
   MANIFEST_PARSED of a live engine makes the status connected and calls
   play(), and every other engine callback leaves the status at error. *)
C22_RecoveryEndsAtManifestParsed ==
  [][ /\ (last'.op = "hlsError" /\ last'.fatal /\ last'.type \in {NETWORK_ERROR, MEDIA_ERROR}) =>
           /\ status' = "error"
           /\ last'.engine \in {e \in DOMAIN engines' : ~engines'[e].destroyed}
           /\ hlsRef' = hlsRef
      /\ (status = "error" /\ last'.op = "manifestParsed") =>
           /\ status' = "connected"
           /\ calls' = << <<"video", 0, "play", "">> >>
           /\ isPlaying'
      /\ (status = "error" /\ last'.op \in EngineOps /\ last'.op # "manifestParsed") =>
           status' = "error" ]_vars

\* the engine that reported a fatal network error and was told to resume
\* loading has now parsed its manifest
C22_Witness ==
  /\ last.op = "manifestParsed"
  /\ last.pre = "error"
  /\ status = "connected"
  /\ error = errorText(NETWORK_ERROR, "manifestLoadError")
  /\ hlsRef = last.engine
  /\ hlsRef \in LiveEngines
  /\ calls = << <<"video", 0, "play", "">> >>

(* C23: the error descriptor is non-null only while the status is error: in
   every state with status disconnected, connecting or connected the error
   descriptor is null. *)
C23_ErrorOnlyInStatusError ==
  (status \in {"disconnected", "connecting", "connected"}) => error = Null

(* C24: where the engine is supported, whenever the status is connecting or
   connected the controller holds a live engine: the status never reports
   connecting or connected after the unbind cleanup released the engine. *)
C24_ConnectedHoldsLiveEngine ==
  (hlsSupported /\ phase = "mounted" /\ status \in {"connecting", "connected"}) =>
    hlsRef \in LiveEngines

(* C25: whenever the controller holds a live engine, the URL that engine was
   loaded with is the streamingUrl of the currently selected event, after any
   sequence of selections, list refreshes, manual disconnects and manual
   connects. *)
C25_EngineUrlIsSelectedUrl ==
  (hlsRef \in LiveEngines) => engines[hlsRef].url = selectedEvent.streamingUrl

\* a manual connect after the list was refreshed with another URL for the
\* selected symbol: the engine is loaded with the URL of the selected object
C25_Witness ==
  /\ last.op = "connect"
  /\ hlsRef \in LiveEngines
  /\ Len(engines) = 2
  /\ engines[hlsRef].url = "u1"
  /\ selectedEvent.streamingUrl = "u1"
  /\ events # <<>>
  /\ events[1].symbol = selectedEvent.symbol
  /\ events[1].streamingUrl = "u2"

\* the steps that are callbacks: of an engine, or of the listeners the native
\* branch added to the <video>
CallbackOps == EngineOps \union {"loadedmetadata", "videoError"}

(* C26: after a disconnect the status stays disconnected until the next
   connect: while the status is disconnected no callback, neither of a
   released engine nor of the loadedmetadata/error listeners earlier connects
   added to the <video>, changes the status, the error descriptor or the
   playing flag. *)
C26_NoLateCallbackAfterDisconnect ==
  [][ (status = "disconnected" /\ last'.op \in CallbackOps) =>
        UNCHANGED <<status, error, isPlaying>> ]_vars

(* C27: the fetch error flag reflects the fetch that completed last: right
   after a fetch completes successfully the error flag is null, also when
   fetches overlapped and one that started earlier failed. *)
C27_ErrorReflectsLastCompletedFetch ==
  (phase = "mounted" /\ last.op = "fetchOk") => fetchError = Null

(* C28: the loading flag is true whenever at least one fetch is in flight, so
   the Refresh button is disabled for as long as any fetch is outstanding,
   also when fetches overlap and one of them completes before the other. *)
C28_LoadingWhileAnyFetchInFlight ==
  (phase = "mounted" /\ inflight # {}) => loading

====
